---- MODULE Spec2Model ----
(***************************************************************************)
(* Model of the gamification core of the learning application: the         *)
(* PL/pgSQL functions and triggers of supabase/migrations that maintain    *)
(* the progress ledger (user_progress), the achievements                   *)
(* (user_achievements) and the prompt statistics (prompts) when rows of    *)
(* problem_submissions are updated.                                        *)
(*                                                                         *)
(* One action is one SQL statement issued by a client, together with the   *)
(* whole cascade of row triggers it fires (a statement and its triggers    *)
(* run in one transaction).                                                *)
(***************************************************************************)
EXTENDS Integers, Sequences, FiniteSets, TLC

\* ------------------------------------------------------------------ bounds
\* Last calendar day of the model (days are 0..MaxDay).
MaxDay == 1
\* Completions are no longer issued once problems_solved reached this value.
MaxSolved == 2
\* Last day of the activity histories calculate_learning_streak is applied to on its own.
MaxHistoryDay == 5
\* The longest run of active days in a history exceeds the safety limit of
\* calculate_learning_streak by 1 + MaxExcess days.
MaxExcess == 1
\* Most user_progress rows with user_id NULL that are created.
MaxNullRows == 3
\* Processing times of up to this many minutes, in either direction.
MaxMinutes == 10

\* --------------------------------------------------------------- constants
\* SQL NULL of an integer column, and of a text column.
NULL == -1
NULLT == "NULL"

Users == {"u1"}
Subs == {"s1", "s2", "s3"}
Prompts == {"p1"}
Days == 0..MaxDay

\* Values of problem_submissions.status allowed by its CHECK.
Statuses == {"pending", "processing", "completed", "error"}
\* Values of problem_submissions.difficulty (NULL passes the CHECK).
Difficulties == {"easy", "medium", "hard", NULLT}
\* Values of problem_submissions.user_rating that clients set (CHECK: 1..5).
Ratings == {3, 4, 5}

\* The statements the clients issue in one behaviour: which rows they insert and
\* which values their UPDATEs write.  "grading" updates one submission with every
\* status, difficulty and rating; "history" completes and re-opens two submissions
\* created on any days, unclassified and rated 5 or not at all; "prompted"
\* completes and rates, within one day, two submissions that reference the same
\* prompt; "scheduled" completes one submission in a database where pg_cron runs
\* daily_maintenance.  lastDay is the last day on which the clients are active,
\* maintenance tells whether daily_maintenance is scheduled.
Workloads ==
  {[name |-> "grading", subs |-> {"s1"}, statuses |-> Statuses,
    difficulties |-> Difficulties, ratings |-> Ratings, lastDay |-> MaxDay,
    maintenance |-> FALSE],
   [name |-> "history", subs |-> {"s1", "s2"}, statuses |-> {"pending", "completed"},
    difficulties |-> {NULLT}, ratings |-> {5}, lastDay |-> MaxDay,
    maintenance |-> FALSE],
   [name |-> "prompted", subs |-> {"s1", "s3"}, statuses |-> {"completed"},
    difficulties |-> {NULLT}, ratings |-> {3, 4}, lastDay |-> 0,
    maintenance |-> FALSE],
   [name |-> "scheduled", subs |-> {"s1"}, statuses |-> {"completed"},
    difficulties |-> {NULLT}, ratings |-> {5}, lastDay |-> MaxDay,
    maintenance |-> TRUE]}

\* Columns of a submission that the model keeps fixed per row.
SubUser(s) == "u1"
SubPrompt(s) == IF s \in {"s1", "s3"} THEN "p1" ELSE NULLT
SubSubject(s) == IF s \in {"s1", "s3"} THEN "Mathematics" ELSE "Science"
\* processing_time_ms: 125000 ms for s1, NULL for s2 and s3.
SubProcessingTime(s) == IF s = "s1" THEN 125000 ELSE NULL

\* ------------------------------------------------------------ achievements
\* A criteria value: a JSON number, or a JSON string (which does not cast to INTEGER).
N(n) == [isInt |-> TRUE, n |-> n]
T == [isInt |-> FALSE, n |-> 0]

\* Rows of public.achievements, in table order: the sample rows First Steps, Math
\* Whiz, Science Explorer and Perfectionist with their thresholds scaled down to
\* the model's bounds, and three further rows the table admits: one with two
\* recognised thresholds, one whose criteria hold no recognised key, and one that
\* is not active.
AchOrder == <<"first_steps", "math_whiz", "science_explorer", "perfectionist",
              "steady_solver", "subject_only", "retired">>
Achs == {AchOrder[i] : i \in 1..Len(AchOrder)}

Achievements ==
  [a \in Achs |->
    CASE a = "first_steps" ->
           [criteria |-> [problems_solved |-> N(1)], points_reward |-> 10, is_active |-> TRUE]
      [] a = "math_whiz" ->
           [criteria |-> [subject |-> T, problems_solved |-> N(2)], points_reward |-> 150, is_active |-> TRUE]
      [] a = "science_explorer" ->
           [criteria |-> [subject |-> T, problems_solved |-> N(2)], points_reward |-> 150, is_active |-> TRUE]
      [] a = "perfectionist" ->
           [criteria |-> [five_star_ratings |-> N(2)], points_reward |-> 250, is_active |-> TRUE]
      [] a = "steady_solver" ->
           [criteria |-> [problems_solved |-> N(2), streak_days |-> N(2)], points_reward |-> 50, is_active |-> TRUE]
      [] a = "subject_only" ->
           [criteria |-> [subject |-> T], points_reward |-> 100, is_active |-> TRUE]
      [] a = "retired" ->
           [criteria |-> [problems_solved |-> N(1)], points_reward |-> 10, is_active |-> FALSE]]

\* ------------------------------------------------------------------- state
VARIABLES
  workload,   \* the statements the clients issue (fixed in a behaviour)
  today,      \* CURRENT_DATE
  subs,       \* problem_submissions: [Subs -> row]
  progress,   \* user_progress: [Users -> row]
  ua,         \* user_achievements: [Users \X Achs -> row]
  prompts,    \* prompts: [Prompts -> statistics columns]
  credited,   \* history: how often an achievement's reward was added to the ledger
  lastOp,     \* history: the statement executed last and what its triggers did
  sHistory,   \* StreakSpec: days on which the user has a completed submission
  sToday,     \* StreakSpec: CURRENT_DATE
  sCheckDate, \* StreakSpec: the local variable check_date
  sStreak,    \* StreakSpec: the local variable current_streak
  sResult,    \* StreakSpec: value returned by calculate_learning_streak, or NULL
  catalog,    \* SelectSpec: the rows of prompts joined with subjects
  selArgs,    \* SelectSpec: the arguments of select_optimal_prompt
  selResult,  \* SelectSpec: the row returned, "none", or NULLT before the call
  sessions,   \* ConcurrentSpec: the open transactions, [Sessions -> record]
  rowLock,    \* ConcurrentSpec: the session holding the user_progress row lock, or NULLT
  orphans,    \* NullUserSpec: the problem_submissions rows with user_id NULL
  nullRows,   \* NullUserSpec: the user_progress rows with user_id NULL, oldest first
  orphanOp,   \* NullUserSpec: history, the statement executed last
  tInput,     \* TimeSpec: NEW.processing_time_ms, [null, ms]
  tMinutes,   \* TimeSpec: the local variable time_spent, [assigned, minutes]
  cDb,        \* CascadeSpec: the database inside the transaction of the cascade
  cStack,     \* CascadeSpec: the running calls of check_and_award_achievements, innermost first
  cStart,     \* CascadeSpec: history, the database when the trigger fired
  pTimer,     \* PollSpec: a setTimeout(poll, ...) is pending
  attempts,   \* PollSpec: the variable attempts of pollForCompletion
  pResult,    \* PollSpec: the status of the result state (setResult), or NULLT
  pError,     \* PollSpec: the error state (setError), or NULLT
  pFetched,   \* PollSpec: history, the number of fetches made and the outcome of the last
  authState,  \* AuthSpec: the AuthState held by useReducer(authReducer, initialState)
  authLast    \* AuthSpec: history, the type of the action dispatched last, or NULLT

dbVars == <<workload, today, subs, progress, ua, prompts, credited, lastOp>>
streakVars == <<sHistory, sToday, sCheckDate, sStreak, sResult>>
selVars == <<catalog, selArgs, selResult>>
concVars == <<sessions, rowLock>>
nullVars == <<orphans, nullRows, orphanOp>>
timeVars == <<tInput, tMinutes>>
cascadeVars == <<cDb, cStack, cStart>>
pollVars == <<pTimer, attempts, pResult, pError, pFetched>>
authVars == <<authState, authLast>>
vars == <<dbVars, streakVars, selVars, concVars, nullVars, timeVars, cascadeVars, pollVars, authVars>>

NoSub == [status |-> "none", created |-> NULL, user_rating |-> NULL]

\* Column defaults of user_progress; present = FALSE is the absent row.
NoProgress ==
  [present |-> FALSE, problems_solved |-> 0, current_streak |-> 0, longest_streak |-> 0,
   total_study_time_minutes |-> 0, total_points |-> 0, level |-> 1, experience_points |-> 0, last_activity_date |-> NULL]
DefaultProgress == [NoProgress EXCEPT !.present = TRUE]

\* Column defaults of user_achievements; present = FALSE is the absent row.
NoUA == [present |-> FALSE, is_completed |-> FALSE, unlocked_at |-> NULL, points_earned |-> 0]

DefaultPrompt == [usage_count |-> 0, average_rating |-> 0, effectiveness_score |-> 0]

\* ---------------------------------------------------------- pure functions
Max(a, b) == IF a >= b THEN a ELSE b

\* Rounding of a non-negative quotient a / b to the nearest integer, halves up
\* (the rounding of a numeric value stored in a DECIMAL(3,2) column, scaled by 100).
RoundDiv(a, b) == (2 * a + b) \div (2 * b)

RECURSIVE SumOver(_, _)
SumOver(S, f) ==
  IF S = {} THEN 0
  ELSE LET x == CHOOSE y \in S : TRUE IN f[x] + SumOver(S \ {x}, f)

\* FLOOR(SQRT(x / 100.0)): the largest n with n * n <= x / 100, searched upward from n.
RECURSIVE FloorSqrtHundredth(_, _)
FloorSqrtHundredth(x, n) ==
  IF (n + 1) * (n + 1) * 100 > x THEN n ELSE FloorSqrtHundredth(x, n + 1)

calculate_user_level(experience_points) == FloorSqrtHundredth(experience_points, 0) + 1

\* Mutant of BasePoints: an unclassified submission is credited like an easy one.
BasePoints_DefaultEasy(difficulty) ==
  CASE difficulty = "medium" -> 20
    [] difficulty = "hard" -> 30
    [] OTHER -> 10

\* points_earned := CASE NEW.difficulty WHEN ... ELSE 15 END
BasePoints(difficulty) ==
  CASE difficulty = "easy" -> 10
    [] difficulty = "medium" -> 20
    [] difficulty = "hard" -> 30
    [] OTHER -> 15

\* Mutant of RatingBonus: only a rating of 5 earns the bonus.
RatingBonus_FiveOnly(user_rating) == IF user_rating # NULL /\ user_rating >= 5 THEN 5 ELSE 0

\* IF NEW.user_rating >= 4 THEN points_earned := points_earned + 5 (NULL >= 4 is not true)
RatingBonus(user_rating) == IF user_rating # NULL /\ user_rating >= 4 THEN 5 ELSE 0

\* COALESCE(NEW.processing_time_ms / 60000, 0): integer division truncates toward zero.
TimeSpent(processing_time_ms) ==
  IF processing_time_ms = NULL THEN 0
  ELSE IF processing_time_ms >= 0 THEN processing_time_ms \div 60000
  ELSE -((-processing_time_ms) \div 60000)

\* Mutant of ProgressGuard: the old status is not looked at.
ProgressGuard_NoOld(old_status, new_status) == new_status = "completed"

\* Mutant of ProgressGuard: the new status is not looked at.
ProgressGuard_NoNew(old_status, new_status) == old_status = NULLT \/ old_status # "completed"

\* NEW.status = 'completed' AND (OLD.status IS NULL OR OLD.status != 'completed')
ProgressGuard(old_status, new_status) ==
  new_status = "completed" /\ (old_status = NULLT \/ old_status # "completed")

\* The same condition, in update_daily_streak.
StreakGuard(old_status, new_status) ==
  new_status = "completed" /\ (old_status = NULLT \/ old_status # "completed")

\* ---------------------------------------------------------------- queries
\* Submissions of user u with status = 'completed'.
CompletedSubs(sb, u) == {s \in Subs : SubUser(s) = u /\ sb[s].status = "completed"}

\* DATE(created_at) of the completed submissions of u.
ActiveDays(sb, u) == {sb[s].created : s \in CompletedSubs(sb, u)}

SafetyLimit == 365

\* Mutant of StreakIteration: a day without activity ends the walk, today included.
StreakIteration_NoGrace(days, current_date, check_date, current_streak) ==
  LET has_activity == check_date \in days
      streak == IF has_activity THEN current_streak + 1 ELSE current_streak
  IN [check_date |-> IF has_activity THEN check_date - 1 ELSE check_date,
      current_streak |-> streak,
      exit |-> ~has_activity \/ streak > SafetyLimit]

\* Mutant of StreakIteration: no safety limit.
StreakIteration_NoLimit(days, current_date, check_date, current_streak) ==
  LET has_activity == check_date \in days
      break == ~has_activity /\ check_date # current_date
      streak == IF has_activity THEN current_streak + 1 ELSE current_streak
  IN [check_date |-> IF break THEN check_date ELSE check_date - 1,
      current_streak |-> streak,
      exit |-> break]

\* One iteration of the LOOP of calculate_learning_streak: the values of check_date
\* and current_streak after it, and whether one of its two EXITs was taken.
StreakIteration(days, current_date, check_date, current_streak) ==
  LET has_activity == check_date \in days
      break == ~has_activity /\ check_date # current_date
      streak == IF has_activity THEN current_streak + 1 ELSE current_streak
  IN [check_date |-> IF break THEN check_date ELSE check_date - 1,
      current_streak |-> streak,
      exit |-> break \/ streak > SafetyLimit]

\* The LOOP from check_date with current_streak so far, and RETURN current_streak.
RECURSIVE StreakLoop(_, _, _, _)
StreakLoop(days, current_date, check_date, current_streak) ==
  LET it == StreakIteration(days, current_date, check_date, current_streak)
  IN IF it.exit THEN it.current_streak
     ELSE StreakLoop(days, current_date, it.check_date, it.current_streak)

\* calculate_learning_streak for a user whose completed submissions were created
\* on the given days: check_date starts at CURRENT_DATE, current_streak at 0.
LearningStreak(days, current_date) == StreakLoop(days, current_date, current_date, 0)

calculate_learning_streak(sb, u, current_date) ==
  LearningStreak(ActiveDays(sb, u), current_date)

\* Rows of the join user_progress x completed submissions x per-day sessions that
\* the user_stats query of check_and_award_achievements aggregates (both LEFT JOINs
\* are on user_id only, so every completed submission meets every session row).
StatsJoinRows(sb, u) == CompletedSubs(sb, u) \X ActiveDays(sb, u)

\* COUNT(DISTINCT ps.subject_id)
unique_subjects_count(sb, u) ==
  Cardinality({SubSubject(r[1]) : r \in StatsJoinRows(sb, u)} \ {NULLT})

\* COUNT(CASE WHEN ps.user_rating = 5 THEN 1 END)
five_star_count(sb, u) ==
  Cardinality({r \in StatsJoinRows(sb, u) : sb[r[1]].user_rating = 5})

\* COUNT(*) ... GROUP BY user_id, DATE(created_at)
problems_in_session(sb, u, d) ==
  Cardinality({s \in CompletedSubs(sb, u) : sb[s].created = d})

RECURSIVE MaxOver(_, _, _)
MaxOver(S, sb, u) ==
  IF S = {} THEN NULL
  ELSE LET d == CHOOSE x \in S : TRUE
       IN Max(problems_in_session(sb, u, d), MaxOver(S \ {d}, sb, u))

\* MAX(session_problems.problems_in_session), NULL without a session row
max_problems_per_session(sb, u) == MaxOver(ActiveDays(sb, u), sb, u)

\* SELECT ... INTO user_stats: found = FALSE when the user has no ledger row
\* (the record is then all NULL and every comparison with it is NULL).
UserStats(db, u) ==
  [found |-> db.progress[u].present,
   problems_solved |-> db.progress[u].problems_solved,
   total_study_time_minutes |-> db.progress[u].total_study_time_minutes,
   current_streak |-> db.progress[u].current_streak,
   level |-> db.progress[u].level,
   unique_subjects_count |-> unique_subjects_count(db.subs, u),
   five_star_count |-> five_star_count(db.subs, u),
   max_problems_per_session |-> max_problems_per_session(db.subs, u)]

Has(criteria, key) == key \in DOMAIN criteria

\* stat >= (criteria->>key)::INTEGER: the cast of a non-number raises an error.
\* Mutant of Threshold: the statistic must exceed the threshold.
Threshold_Strict(criteria, key, stat) ==
  IF criteria[key].isInt THEN [met |-> stat > criteria[key].n, err |-> FALSE]
  ELSE [met |-> FALSE, err |-> TRUE]

Threshold(criteria, key, stat) ==
  IF criteria[key].isInt THEN [met |-> stat >= criteria[key].n, err |-> FALSE]
  ELSE [met |-> FALSE, err |-> TRUE]

\* Mutant of CriteriaMetDefault: criteria_met starts true.
CriteriaMetDefault_True == [met |-> TRUE, err |-> FALSE]

\* criteria_met := false, the value no branch of the chain replaces.
CriteriaMetDefault == [met |-> FALSE, err |-> FALSE]

\* The IF / ELSIF chain of check_and_award_achievements: criteria_met starts false
\* and is set by the first branch whose key the criteria contain.
CriteriaMet(criteria, stats) ==
  IF Has(criteria, "problems_solved") THEN
    Threshold(criteria, "problems_solved", stats.problems_solved)
  ELSE IF Has(criteria, "study_hours") THEN
    Threshold([study_hours |-> [isInt |-> criteria["study_hours"].isInt,
                                n |-> criteria["study_hours"].n * 60]],
              "study_hours", stats.total_study_time_minutes)
  ELSE IF Has(criteria, "streak_days") THEN
    Threshold(criteria, "streak_days", stats.current_streak)
  ELSE IF Has(criteria, "level") THEN
    Threshold(criteria, "level", stats.level)
  ELSE IF Has(criteria, "subjects_count") THEN
    Threshold(criteria, "subjects_count", stats.unique_subjects_count)
  ELSE IF Has(criteria, "five_star_ratings") THEN
    Threshold(criteria, "five_star_ratings", stats.five_star_count)
  ELSE IF Has(criteria, "problems_per_session") THEN
    Threshold(criteria, "problems_per_session",
              IF stats.max_problems_per_session = NULL THEN 0
              ELSE stats.max_problems_per_session)
  ELSE CriteriaMetDefault

\* Mutant of PendingAchievements: a completed row excludes an achievement only
\* when it was completed by the running transaction.
PendingAchievements_ThisTransaction(db, u) ==
  SelectSeq(AchOrder, LAMBDA a :
    Achievements[a].is_active
    /\ ~(\E i \in 1..Len(db.awards) : db.awards[i].ach = a))

\* Mutant of PendingAchievements: completed achievements are returned as well.
PendingAchievements_Completed(db, u) ==
  SelectSeq(AchOrder, LAMBDA a : Achievements[a].is_active)

\* The rows the FOR loop's query returns: active achievements that have no
\* completed user_achievements row for the user when the query starts.
PendingAchievements(db, u) ==
  SelectSeq(AchOrder, LAMBDA a :
    Achievements[a].is_active
    /\ ~(db.ua[<<u, a>>].present /\ db.ua[<<u, a>>].is_completed))

\* INSERT INTO user_achievements ... ON CONFLICT (user_id, achievement_id) DO UPDATE
AwardRow(row, current_date, points_reward) ==
  [present |-> TRUE, is_completed |-> TRUE, unlocked_at |-> current_date,
   points_earned |-> points_reward]

\* Mutant of CreditReward: the level is not recomputed.
CreditReward_StaleLevel(row, points_reward) ==
  [row EXCEPT !.total_points = row.total_points + points_reward,
              !.experience_points = row.experience_points + points_reward]

\* Mutant of CreditReward: the reward is added to total_points only.
CreditReward_TotalOnly(row, points_reward) ==
  [row EXCEPT !.total_points = row.total_points + points_reward]

\* UPDATE user_progress SET total_points = ..., experience_points = ..., level = ...
CreditReward(row, points_reward) ==
  [row EXCEPT !.total_points = row.total_points + points_reward,
              !.experience_points = row.experience_points + points_reward,
              !.level = calculate_user_level(row.experience_points + points_reward)]

\* check_and_award_achievements(p_user_id).  db is the database inside the running
\* transaction together with the history of the cascade: clock counts the calls
\* begun and the awards made, awards lists every award with the clock value at
\* which its call began and at which it was made.  The FOR loop runs over the
\* rows its query returned when it started (AwardLoop); every UPDATE of
\* user_progress fires check_achievements_on_progress_update, which calls the
\* function again before the loop goes on.
RECURSIVE check_and_award_achievements(_, _, _)
RECURSIVE AwardLoop(_, _, _, _, _, _)
AwardLoop(db, u, current_date, user_stats, todo, begin) ==
  IF db.err \/ todo = <<>> THEN db
  ELSE
    LET a == Head(todo)
        reward == Achievements[a].points_reward
        res == IF user_stats.found THEN CriteriaMet(Achievements[a].criteria, user_stats)
               ELSE [met |-> FALSE, err |-> FALSE]
    IN IF res.err THEN [db EXCEPT !.err = TRUE]
       ELSE IF ~res.met THEN AwardLoop(db, u, current_date, user_stats, Tail(todo), begin)
       ELSE
         LET at == db.clock + 1
             awarded ==
               [db EXCEPT !.ua[<<u, a>>] = AwardRow(@, current_date, reward),
                          !.clock = at,
                          !.awards = Append(@, [ach |-> a, begin |-> begin, at |-> at])]
             paid ==
               IF awarded.progress[u].present
               THEN check_and_award_achievements(
                      [awarded EXCEPT !.progress[u] = CreditReward(@, reward),
                                      !.credited[<<u, a>>] = @ + 1],
                      u, current_date)
               ELSE awarded
         IN AwardLoop(paid, u, current_date, user_stats, Tail(todo), begin)

check_and_award_achievements(db, u, current_date) ==
  LET begin == db.clock + 1
  IN AwardLoop([db EXCEPT !.clock = begin], u, current_date, UserStats(db, u),
               PendingAchievements(db, u), begin)

\* ------------------------------------------------- prompt statistics
\* Rows of problem_submissions with prompt_id = p.
Referencing(sb, p) == {s \in Subs : sb[s].status # "none" /\ SubPrompt(s) = p}
Rated(sb, p) == {s \in Referencing(sb, p) : sb[s].user_rating # NULL}
RatingSum(sb, S) == SumOver(S, [s \in Subs |-> sb[s].user_rating])

\* AVG(user_rating) over the rated rows, as stored in average_rating DECIMAL(3,2)
\* (hundredths); NULL when no row is rated.
AverageRating(sb, p) ==
  IF Rated(sb, p) = {} THEN NULL
  ELSE RoundDiv(100 * RatingSum(sb, Rated(sb, p)), Cardinality(Rated(sb, p)))

\* Mutant of EffectivenessOf: the success rate is divided by 10.
EffectivenessOf_Tenth(total, done, n, sum) ==
  IF n = 0 THEN RoundDiv(400 * done, total)
  ELSE RoundDiv(60 * sum * total + 400 * done * n, n * total)

\* COALESCE(avg_rating, 0) * 0.6 + COALESCE(success_rate, 0) / 20.0 * 0.4 with
\* avg_rating = sum / n over the n rated rows (NULL when n = 0) and
\* success_rate = done / total * 100, as stored in DECIMAL(3,2) (hundredths).
EffectivenessOf(total, done, n, sum) ==
  IF n = 0 THEN RoundDiv(200 * done, total)
  ELSE RoundDiv(60 * sum * total + 200 * done * n, n * total)

\* The effectiveness score of prompt p over the rows that reference it.
EffectivenessScore(sb, p) ==
  EffectivenessOf(Cardinality(Referencing(sb, p)),
                  Cardinality({s \in Referencing(sb, p) : sb[s].status = "completed"}),
                  Cardinality(Rated(sb, p)),
                  RatingSum(sb, Rated(sb, p)))

\* update_prompt_effectiveness(), for the row NEW = s.
update_prompt_effectiveness(db, s) ==
  LET p == SubPrompt(s)
      avg == AverageRating(db.subs, p)
  IN [db EXCEPT !.prompts[p] =
        [average_rating |-> IF avg = NULL THEN 0 ELSE avg,
         effectiveness_score |-> EffectivenessScore(db.subs, p),
         usage_count |-> Cardinality(Referencing(db.subs, p))]]

\* WHEN (NEW.user_rating IS NOT NULL AND NEW.prompt_id IS NOT NULL)
update_prompt_effectiveness_on_rating(db, s) ==
  IF db.subs[s].user_rating # NULL /\ SubPrompt(s) # NULLT
  THEN update_prompt_effectiveness(db, s)
  ELSE db

\* ------------------------------------------------- ledger triggers
\* The INSERT arm of the upsert: the other columns take their defaults.
InsertProgress(points_earned, time_spent) ==
  [DefaultProgress EXCEPT !.problems_solved = 1,
                          !.total_study_time_minutes = time_spent,
                          !.total_points = points_earned,
                          !.experience_points = points_earned]

\* The ON CONFLICT (user_id) DO UPDATE arm of the upsert.
UpdateProgress(row, points_earned, time_spent, current_date) ==
  [row EXCEPT !.problems_solved = row.problems_solved + 1,
              !.total_study_time_minutes = row.total_study_time_minutes + time_spent,
              !.total_points = row.total_points + points_earned,
              !.experience_points = row.experience_points + points_earned,
              !.level = calculate_user_level(row.experience_points + points_earned),
              !.last_activity_date = current_date]

\* UPDATE public.prompts SET usage_count = usage_count + 1, average_rating = (SELECT AVG ...)
UsePrompt(row, sb, p) ==
  [row EXCEPT !.usage_count = row.usage_count + 1,
              !.average_rating = AverageRating(sb, p)]

\* update_user_progress_on_completion(), trigger on_problem_completion, for the
\* row NEW = db.subs[s] with NEW.difficulty = difficulty and OLD.status = old_status.
\* Only the DO UPDATE arm fires check_achievements_on_progress_update.
update_user_progress_on_completion(db, s, old_status, difficulty, current_date) ==
  IF ~ProgressGuard(old_status, db.subs[s].status) THEN db
  ELSE
    LET u == SubUser(s)
        p == SubPrompt(s)
        points_earned == BasePoints(difficulty) + RatingBonus(db.subs[s].user_rating)
        time_spent == TimeSpent(SubProcessingTime(s))
        upserted ==
          IF ~db.progress[u].present
          THEN [db EXCEPT !.progress[u] = InsertProgress(points_earned, time_spent),
                          !.points = points_earned]
          ELSE check_and_award_achievements(
                 [db EXCEPT !.progress[u] =
                              UpdateProgress(@, points_earned, time_spent, current_date),
                            !.points = points_earned],
                 u, current_date)
    IN IF upserted.err \/ p = NULLT THEN upserted
       ELSE [upserted EXCEPT !.prompts[p] = UsePrompt(@, upserted.subs, p)]

\* update_daily_streak(), trigger update_streak_on_completion.
update_daily_streak(db, s, old_status, current_date) ==
  IF db.err \/ ~StreakGuard(old_status, db.subs[s].status) THEN db
  ELSE
    LET u == SubUser(s)
    IN IF ~db.progress[u].present THEN db
       ELSE check_and_award_achievements(
              [db EXCEPT !.progress[u].current_streak =
                           calculate_learning_streak(db.subs, u, current_date)],
              u, current_date)

\* ------------------------------------------------- prompt selection
\* A nullable TEXT[] value: SQL NULL, or an array with the given elements.
NullArray == [null |-> TRUE, elems |-> {}]
Array(S) == [null |-> FALSE, elems |-> S]

\* Mutant of HardFilter: is_active is not looked at.
HardFilter_IgnoreActive(row, p_subject_name, p_input_type) ==
  /\ row.subject = p_subject_name
  /\ (row.input_type = p_input_type \/ row.input_type = "any")

\* p.is_active = true AND s.name = p_subject_name
\* AND (p.input_type = p_input_type OR p.input_type = 'any')
HardFilter(row, p_subject_name, p_input_type) ==
  /\ row.is_active
  /\ row.subject = p_subject_name
  /\ (row.input_type = p_input_type \/ row.input_type = "any")

\* Mutant of OptionalFilter: the difficulty is not compared.
OptionalFilter_NoDifficulty(row, p_difficulty, p_grade_level, p_keywords) ==
  /\ (p_grade_level = NULLT \/ p_grade_level \in row.grade_levels)
  /\ (p_keywords.null
        \/ (~row.keywords.null /\ row.keywords.elems \cap p_keywords.elems # {}))

\* AND (p.difficulty_level = p_difficulty OR p_difficulty IS NULL)
\* AND (p_grade_level IS NULL OR p.grade_levels @> ARRAY[p_grade_level])
\* AND (p_keywords IS NULL OR p.keywords && p_keywords)
\* (a comparison with a NULL keywords column is NULL, which WHERE does not accept)
OptionalFilter(row, p_difficulty, p_grade_level, p_keywords) ==
  /\ (row.difficulty_level = p_difficulty \/ p_difficulty = NULLT)
  /\ (p_grade_level = NULLT \/ p_grade_level \in row.grade_levels)
  /\ (p_keywords.null
        \/ (~row.keywords.null /\ row.keywords.elems \cap p_keywords.elems # {}))

\* The rows the WHERE clause of select_optimal_prompt accepts.
Candidates(cat, args) ==
  {t \in DOMAIN cat :
     /\ HardFilter(cat[t], args.p_subject_name, args.p_input_type)
     /\ OptionalFilter(cat[t], args.p_difficulty, args.p_grade_level, args.p_keywords)}

\* Mutant of RankedBefore: the usage count is the first key of the order.
RankedBefore_UsageFirst(a, b) ==
  \/ a.usage_count < b.usage_count
  \/ (a.usage_count = b.usage_count /\ a.effectiveness_score >= b.effectiveness_score)

\* ORDER BY p.effectiveness_score DESC, p.usage_count ASC: row a is not after row b.
RankedBefore(a, b) ==
  \/ a.effectiveness_score > b.effectiveness_score
  \/ (a.effectiveness_score = b.effectiveness_score /\ a.usage_count <= b.usage_count)

\* The rows LIMIT 1 can return: RANDOM() orders the rows that tie on both keys.
select_optimal_prompt(cat, args) ==
  LET C == Candidates(cat, args)
  IN {t \in C : \A o \in C : RankedBefore(cat[t], cat[o])}

\* A call with the DEFAULTs of the parameters after p_subject_name.
DefaultArgs ==
  [p_subject_name |-> "Mathematics", p_input_type |-> "any", p_difficulty |-> "medium",
   p_grade_level |-> NULLT, p_keywords |-> NullArray]

\* No catalog and no call: the state of the selection in the other specifications.
SelIdle ==
  /\ catalog = <<>>
  /\ selArgs = DefaultArgs
  /\ selResult = NULLT

\* ------------------------------------------------- concurrent sessions
\* Database sessions, each running one transaction at READ COMMITTED (the
\* default): UPDATE problem_submissions SET status = 'completed', difficulty = d
\* on its own submission.
Sessions == {"t1", "t2", "t3"}
SessionSub(t) == IF t = "t1" THEN "s1" ELSE IF t = "t2" THEN "s2" ELSE "s3"

\* A transaction that has written nothing.
NoWrites ==
  [subs |-> [s \in Subs |-> NoSub], progress |-> [u \in Users |-> NoProgress],
   ua |-> [k \in Users \X Achs |-> NoUA], prompts |-> [p \in Prompts |-> DefaultPrompt],
   credited |-> [k \in Users \X Achs |-> 0], clock |-> 0, awards |-> <<>>,
   err |-> FALSE, points |-> 0]

\* pc: "begin", "updated" (row of problem_submissions written, triggers pending),
\* "upserted" (on_problem_completion done), "streaked" (update_streak_on_completion
\* done), "committed", "aborted".  db is the database as the transaction sees it
\* once it holds the row lock; waited records that it found the row locked.
IdleSession ==
  [pc |-> "begin", difficulty |-> NULLT, old_status |-> NULLT, db |-> NoWrites,
   waited |-> FALSE]

ConcIdle ==
  /\ sessions = [t \in Sessions |-> IdleSession]
  /\ rowLock = NULLT

\* Mutant of CanLock: a writer does not wait for the holder of the row lock.
CanLock_NoWait(holder, t) == TRUE

\* A write to a row waits until no other transaction holds the row's lock; the
\* lock is held until the transaction ends.
CanLock(holder, t) == holder \in {NULLT, t}

\* ------------------------------------------------- submissions without a user
\* problem_submissions.user_id is nullable: rows whose user_id is NULL.
OrphanSubs == {"o1", "o2"}

NoOrphanOp == [role |-> NULLT, sub |-> NULLT, completing |-> FALSE, rows |-> 0, err |-> FALSE]

NullIdle ==
  /\ orphans = [o \in OrphanSubs |-> NoSub]
  /\ nullRows = <<>>
  /\ orphanOp = NoOrphanOp

\* ------------------------------------------------- processing times
\* A nullable INTEGER column value.
NullInt == [null |-> TRUE, ms |-> 0]
Int32(n) == [null |-> FALSE, ms |-> n]
Column(x) == IF x.null THEN NULL ELSE x.ms

Unassigned == [assigned |-> FALSE, minutes |-> 0]

TimeIdle ==
  /\ tInput = NullInt
  /\ tMinutes = Unassigned

\* ------------------------------------------------- trigger cascade, stepwise
CascadeIdle ==
  /\ cDb = NoWrites
  /\ cStack = <<>>
  /\ cStart = NoWrites

\* ------------------------------------------------- polling client
PollIdle ==
  /\ pTimer = FALSE
  /\ attempts = 0
  /\ pResult = NULLT
  /\ pError = NULLT
  /\ pFetched = [n |-> 0, last |-> NULLT]

\* ------------------------------------------------- authentication state
\* initialState; null is NULLT.
initialState ==
  [user |-> NULLT, session |-> NULLT, isAuthenticated |-> FALSE, isLoading |-> TRUE,
   error |-> NULLT]

AuthIdle ==
  /\ authState = initialState
  /\ authLast = NULLT

\* ------------------------------------------------------------- actions
\* The database at the start of a statement, with an empty cascade history.
Begin(sb) ==
  [subs |-> sb, progress |-> progress, ua |-> ua, prompts |-> prompts,
   credited |-> credited, clock |-> 0, awards |-> <<>>, err |-> FALSE, points |-> 0]

\* lastOp.op: "complete" is an UPDATE of status into 'completed', "redeliver" one
\* from 'completed' to 'completed', "status" any other UPDATE of status.
NoOp ==
  [op |-> "init", sub |-> NULLT, difficulty |-> NULLT, points |-> 0,
   awards |-> <<>>, err |-> FALSE]

\* End of the transaction: an error rolls every change back.
Commit(db, op) ==
  IF db.err
  THEN /\ UNCHANGED <<subs, progress, ua, prompts, credited>>
       /\ lastOp' = [op EXCEPT !.err = TRUE]
  ELSE /\ subs' = db.subs
       /\ progress' = db.progress
       /\ ua' = db.ua
       /\ prompts' = db.prompts
       /\ credited' = db.credited
       /\ lastOp' = [op EXCEPT !.points = db.points, !.awards = db.awards]

\* No statement executed yet; the ledger row exists already when the user signed
\* up through handle_new_user, and is missing otherwise.
DbInit ==
  /\ workload \in Workloads
  /\ today = 0
  /\ subs = [s \in Subs |-> NoSub]
  /\ progress \in [Users -> {NoProgress, DefaultProgress}]
  /\ ua = [k \in Users \X Achs |-> NoUA]
  /\ prompts = [p \in Prompts |-> DefaultPrompt]
  /\ credited = [k \in Users \X Achs |-> 0]
  /\ lastOp = NoOp

\* CURRENT_DATE moves on.
NextDay ==
  /\ today < workload.lastDay
  /\ today' = today + 1
  /\ lastOp' = [NoOp EXCEPT !.op = "day"]
  /\ UNCHANGED <<workload, subs, progress, ua, prompts, credited>>
  /\ UNCHANGED <<streakVars, selVars, concVars, nullVars, timeVars, cascadeVars, pollVars, authVars>>

\* INSERT INTO problem_submissions: status takes its default, created_at is NOW().
InsertSubmission(s) ==
  /\ subs[s].status = "none"
  /\ subs' = [subs EXCEPT ![s] = [status |-> "pending", created |-> today,
                                  user_rating |-> NULL]]
  /\ lastOp' = [NoOp EXCEPT !.op = "insert", !.sub = s]
  /\ UNCHANGED <<workload, today, progress, ua, prompts, credited>>
  /\ UNCHANGED <<streakVars, selVars, concVars, nullVars, timeVars, cascadeVars, pollVars, authVars>>

\* UPDATE problem_submissions SET status = st, difficulty = d WHERE id = s, with the
\* AFTER UPDATE row triggers in the order of their names: on_problem_completion,
\* (update_prompt_effectiveness_on_rating: not fired, user_rating is not updated),
\* update_streak_on_completion.  The difficulty column is read by this statement's
\* trigger only, as NEW.difficulty, and is not kept in the state.
SetStatus(s, st, d) ==
  LET old == subs[s].status
      u == SubUser(s)
      completing == st = "completed" /\ old # "completed"
      db0 == Begin([subs EXCEPT ![s].status = st])
      db1 == update_user_progress_on_completion(db0, s, old, d, today)
      db2 == update_daily_streak(db1, s, old, today)
  IN /\ old # "none"
     /\ completing => progress[u].problems_solved < MaxSolved
     /\ ~completing => d = NULLT
     /\ Commit(db2, [NoOp EXCEPT !.op = IF completing THEN "complete"
                                        ELSE IF st = "completed" THEN "redeliver"
                                        ELSE "status",
                                 !.sub = s, !.difficulty = d])
     /\ UNCHANGED <<workload, today>>
     /\ UNCHANGED <<streakVars, selVars, concVars, nullVars, timeVars, cascadeVars, pollVars, authVars>>

\* UPDATE problem_submissions SET user_rating = r WHERE id = s, with the AFTER UPDATE
\* row triggers on_problem_completion, update_prompt_effectiveness_on_rating and
\* update_streak_on_completion (the status does not change).
SetRating(s, r) ==
  LET old == subs[s].status
      db0 == Begin([subs EXCEPT ![s].user_rating = r])
      db1 == update_user_progress_on_completion(db0, s, old, NULLT, today)
      db2 == update_prompt_effectiveness_on_rating(db1, s)
      db3 == update_daily_streak(db2, s, old, today)
  IN /\ old # "none"
     /\ Commit(db3, [NoOp EXCEPT !.op = "rating", !.sub = s])
     /\ UNCHANGED <<workload, today>>
     /\ UNCHANGED <<streakVars, selVars, concVars, nullVars, timeVars, cascadeVars, pollVars, authVars>>

\* SELECT * FROM check_and_award_achievements(u), called directly.
CheckAchievements(u) ==
  /\ Commit(check_and_award_achievements(Begin(subs), u, today),
            [NoOp EXCEPT !.op = "check"])
  /\ UNCHANGED <<workload, today>>
  /\ UNCHANGED <<streakVars, selVars, concVars, nullVars, timeVars, cascadeVars, pollVars, authVars>>

\* SELECT daily_maintenance(): the two UPDATEs of user_progress, each of which
\* fires check_achievements_on_progress_update for every row (the INSERT INTO
\* learning_analytics touches no table of the model).
daily_maintenance(db, current_date) ==
  LET u == CHOOSE x \in Users : TRUE
      streaks ==
        IF ~db.progress[u].present THEN db
        ELSE check_and_award_achievements(
               [db EXCEPT !.progress[u].current_streak =
                            calculate_learning_streak(db.subs, u, current_date)],
               u, current_date)
  IN IF streaks.err \/ ~streaks.progress[u].present THEN streaks
     ELSE check_and_award_achievements(
            [streaks EXCEPT !.progress[u].longest_streak =
                              Max(@, streaks.progress[u].current_streak)],
            u, current_date)

DailyMaintenance ==
  /\ workload.maintenance
  /\ Commit(daily_maintenance(Begin(subs), today), [NoOp EXCEPT !.op = "maintenance"])
  /\ UNCHANGED <<workload, today>>
  /\ UNCHANGED <<streakVars, selVars, concVars, nullVars, timeVars, cascadeVars, pollVars, authVars>>

Next ==
  \/ DailyMaintenance
  \/ NextDay
  \/ \E s \in workload.subs : InsertSubmission(s)
  \/ \E s \in workload.subs, st \in workload.statuses,
        d \in workload.difficulties \cup {NULLT} : SetStatus(s, st, d)
  \/ \E s \in workload.subs, r \in workload.ratings : SetRating(s, r)
  \/ \E u \in Users : CheckAchievements(u)

Init ==
  /\ DbInit
  /\ sHistory = {}
  /\ sToday = 0
  /\ sCheckDate = 0
  /\ sStreak = 0
  /\ sResult = NULL
  /\ SelIdle
  /\ ConcIdle
  /\ AuthIdle
  /\ PollIdle
  /\ CascadeIdle
  /\ TimeIdle
  /\ NullIdle

\* The database under the clients' statements.
Spec == Init /\ [][Next]_vars

\* ----------------------------------------------------- StreakSpec
\* Histories of a long-standing user: an unbroken run of active days around the
\* safety limit, ending on current_date or on the day before (days before day 0
\* are negative).
LongHistories(current_date) ==
  {(current_date - g - n + 1)..(current_date - g) :
     n \in (SafetyLimit - 1)..(SafetyLimit + 1 + MaxExcess), g \in 0..1}

\* calculate_learning_streak called for every activity history over the days
\* 0..MaxHistoryDay and for the long histories, on every CURRENT_DATE up to the
\* day after MaxHistoryDay: current_streak := 0, check_date := CURRENT_DATE.
StreakInit ==
  /\ workload = CHOOSE w \in Workloads : w.name = "grading"
  /\ today = 0
  /\ subs = [s \in Subs |-> NoSub]
  /\ progress = [u \in Users |-> NoProgress]
  /\ ua = [k \in Users \X Achs |-> NoUA]
  /\ prompts = [p \in Prompts |-> DefaultPrompt]
  /\ credited = [k \in Users \X Achs |-> 0]
  /\ lastOp = NoOp
  /\ sToday \in 0..(MaxHistoryDay + 1)
  /\ sHistory \in SUBSET (0..MaxHistoryDay) \cup LongHistories(sToday)
  /\ sCheckDate = sToday
  /\ sStreak = 0
  /\ sResult = NULL
  /\ SelIdle
  /\ ConcIdle
  /\ AuthIdle
  /\ PollIdle
  /\ CascadeIdle
  /\ TimeIdle
  /\ NullIdle

\* One iteration of the LOOP; RETURN current_streak once it is left.
StreakLoopIteration ==
  LET it == StreakIteration(sHistory, sToday, sCheckDate, sStreak)
  IN /\ sResult = NULL
     /\ sCheckDate' = it.check_date
     /\ sStreak' = it.current_streak
     /\ sResult' = IF it.exit THEN it.current_streak ELSE NULL
     /\ UNCHANGED <<sHistory, sToday>>
     /\ UNCHANGED <<dbVars, selVars, concVars, nullVars, timeVars, cascadeVars, pollVars, authVars>>

StreakNext == StreakLoopIteration

StreakSpec == StreakInit /\ [][StreakNext]_vars

\* The function runs on: a PL/pgSQL LOOP is never suspended for good.
StreakFairSpec == StreakSpec /\ WF_vars(StreakNext)

\* ----------------------------------------------------- SelectSpec
\* The columns of a catalog row that the WHERE clause reads, with the statistics
\* columns given.
CatalogRows(actives, subjects, scores, usages) ==
  [is_active : actives, subject : subjects, input_type : {"text", "image", "any"},
   difficulty_level : {"easy", "medium"}, grade_levels : {{}, {"g1"}},
   keywords : {NullArray, Array({"k1"})},
   effectiveness_score : scores, usage_count : usages]

\* Catalogs of two rows that the filters tell apart: t1 has the better statistics
\* (8.00 / 50 uses against 6.00 / 5 uses) and any attributes, t2 is an active
\* Mathematics row.
FilterCatalogs ==
  {[t \in {"t1", "t2"} |-> IF t = "t1" THEN r1 ELSE r2] :
     r1 \in CatalogRows(BOOLEAN, {"Mathematics", "Science"}, {800}, {50}),
     r2 \in CatalogRows({TRUE}, {"Mathematics"}, {600}, {5})}

\* A row every call of this specification accepts, with the statistics given.
AcceptedRow(score, usage) ==
  [is_active |-> TRUE, subject |-> "Mathematics", input_type |-> "any",
   difficulty_level |-> "medium", grade_levels |-> {"g1"}, keywords |-> Array({"k1"}),
   effectiveness_score |-> score, usage_count |-> usage]

\* Catalogs of three accepted rows that only the ranking tells apart.
RankingCatalogs ==
  [{"t1", "t2", "t3"} -> {AcceptedRow(e, c) : e \in {600, 800}, c \in {5, 50}}]

SelectArgs ==
  [p_subject_name : {"Mathematics"}, p_input_type : {"text", "any"},
   p_difficulty : {"medium", NULLT}, p_grade_level : {"g1", NULLT},
   p_keywords : {NullArray, Array({"k1"})}]

\* select_optimal_prompt is about to be called on a catalog.
SelectInit ==
  /\ workload = CHOOSE w \in Workloads : w.name = "grading"
  /\ today = 0
  /\ subs = [s \in Subs |-> NoSub]
  /\ progress = [u \in Users |-> NoProgress]
  /\ ua = [k \in Users \X Achs |-> NoUA]
  /\ prompts = [p \in Prompts |-> DefaultPrompt]
  /\ credited = [k \in Users \X Achs |-> 0]
  /\ lastOp = NoOp
  /\ sHistory = {}
  /\ sToday = 0
  /\ sCheckDate = 0
  /\ sStreak = 0
  /\ sResult = NULL
  /\ catalog \in FilterCatalogs \cup RankingCatalogs
  /\ selArgs \in SelectArgs
  /\ selResult = NULLT
  /\ ConcIdle
  /\ AuthIdle
  /\ PollIdle
  /\ CascadeIdle
  /\ TimeIdle
  /\ NullIdle

\* SELECT ... LIMIT 1: one of the first rows of the order, or no row.
SelectCall ==
  LET first == select_optimal_prompt(catalog, selArgs)
  IN /\ selResult = NULLT
     /\ selResult' \in (IF first = {} THEN {"none"} ELSE first)
     /\ UNCHANGED <<catalog, selArgs>>
     /\ UNCHANGED <<dbVars, streakVars, concVars, nullVars, timeVars, cascadeVars, pollVars, authVars>>

SelectNext == SelectCall

SelectSpec == SelectInit /\ [][SelectNext]_vars

\* ----------------------------------------------------- ConcurrentSpec
\* Every session's submission is pending, created today; the user may have a
\* ledger row or not.
ConcInit ==
  /\ workload = CHOOSE w \in Workloads : w.name = "grading"
  /\ today = 0
  /\ subs \in [Subs -> {[status |-> "pending", created |-> 0, user_rating |-> r] :
                          r \in {NULL, 4}}]
  /\ progress \in [Users -> {NoProgress, DefaultProgress}]
  /\ ua = [k \in Users \X Achs |-> NoUA]
  /\ prompts = [p \in Prompts |-> DefaultPrompt]
  /\ credited = [k \in Users \X Achs |-> 0]
  /\ lastOp = NoOp
  /\ sHistory = {}
  /\ sToday = 0
  /\ sCheckDate = 0
  /\ sStreak = 0
  /\ sResult = NULL
  /\ SelIdle
  /\ ConcIdle
  /\ AuthIdle
  /\ PollIdle
  /\ CascadeIdle
  /\ TimeIdle
  /\ NullIdle

\* The UPDATE writes the session's row of problem_submissions; the new version is
\* visible to this transaction only.  The AFTER UPDATE row triggers follow.
SessionUpdate(t, d) ==
  /\ sessions[t].pc = "begin"
  /\ sessions' = [sessions EXCEPT ![t].pc = "updated", ![t].difficulty = d,
                                  ![t].old_status = subs[SessionSub(t)].status]
  /\ UNCHANGED rowLock
  /\ UNCHANGED <<dbVars, streakVars, selVars, nullVars, timeVars, cascadeVars, pollVars, authVars>>

\* Trigger on_problem_completion.  INSERT ... ON CONFLICT DO UPDATE waits for the
\* lock of the user_progress row (or for the transaction that is inserting the
\* key), then works on the latest committed version of the row; the statements
\* that follow in the cascade see the committed rows and the transaction's writes.
SessionUpsert(t) ==
  LET s == SessionSub(t)
      seen == Begin([subs EXCEPT ![s].status = "completed"])
  IN /\ sessions[t].pc = "updated"
     /\ CanLock(rowLock, t)
     /\ rowLock' = t
     /\ sessions' =
          [x \in Sessions |->
             IF x = t
             THEN [sessions[t] EXCEPT
                     !.pc = "upserted",
                     !.db = update_user_progress_on_completion(
                              seen, s, sessions[t].old_status, sessions[t].difficulty, today)]
             ELSE IF sessions[x].pc = "updated"
                  THEN [sessions[x] EXCEPT !.waited = TRUE]
                  ELSE sessions[x]]
     /\ UNCHANGED <<dbVars, streakVars, selVars, nullVars, timeVars, cascadeVars, pollVars, authVars>>

\* Trigger update_streak_on_completion, in the same transaction.
SessionStreak(t) ==
  /\ sessions[t].pc = "upserted"
  /\ sessions' = [sessions EXCEPT
                    ![t].pc = "streaked",
                    ![t].db = update_daily_streak(sessions[t].db, SessionSub(t),
                                                  sessions[t].old_status, today)]
  /\ UNCHANGED rowLock
  /\ UNCHANGED <<dbVars, streakVars, selVars, nullVars, timeVars, cascadeVars, pollVars, authVars>>

\* COMMIT publishes the rows the transaction wrote and releases its locks; an
\* error in a trigger rolls the transaction back instead.
SessionEnd(t) ==
  LET db == sessions[t].db
      s == SessionSub(t)
  IN /\ sessions[t].pc = "streaked"
     /\ rowLock' = IF rowLock = t THEN NULLT ELSE rowLock
     /\ IF db.err
        THEN /\ sessions' = [sessions EXCEPT ![t].pc = "aborted"]
             /\ UNCHANGED <<subs, progress, ua, prompts, credited>>
        ELSE /\ sessions' = [sessions EXCEPT ![t].pc = "committed"]
             /\ subs' = [subs EXCEPT ![s] = db.subs[s]]
             /\ progress' = db.progress
             /\ ua' = db.ua
             /\ prompts' = db.prompts
             /\ credited' = db.credited
     /\ UNCHANGED <<workload, today, lastOp>>
     /\ UNCHANGED <<streakVars, selVars, nullVars, timeVars, cascadeVars, pollVars, authVars>>

ConcNext ==
  \/ \E t \in Sessions, d \in {"easy", "hard"} : SessionUpdate(t, d)
  \/ \E t \in Sessions : SessionUpsert(t)
  \/ \E t \in Sessions : SessionStreak(t)
  \/ \E t \in Sessions : SessionEnd(t)

\* Concurrent completions of one user's submissions.
ConcurrentSpec == ConcInit /\ [][ConcNext]_vars

\* ----------------------------------------------------- NullUserSpec
\* "Users can update own submissions": a role subject to row level security
\* reaches a row only if auth.uid() = user_id is true; service_role bypasses it.
PolicyAdmits(role, uid, user_id) ==
  role = "service_role" \/ (user_id # NULLT /\ uid = user_id)

\* ON CONFLICT (user_id): the UNIQUE constraint treats NULLs as distinct, so a
\* row with user_id NULL conflicts with no row.
UpsertConflicts(user_id, present) == user_id # NULLT /\ present

\* Two submissions with user_id NULL (the foreign key admits NULL and rejects
\* every other value that is no users.id), pending; no ledger row without a user.
NullUserInit ==
  /\ workload = CHOOSE w \in Workloads : w.name = "grading"
  /\ today = 0
  /\ subs = [s \in Subs |-> NoSub]
  /\ progress \in [Users -> {NoProgress, DefaultProgress}]
  /\ ua = [k \in Users \X Achs |-> NoUA]
  /\ prompts = [p \in Prompts |-> DefaultPrompt]
  /\ credited = [k \in Users \X Achs |-> 0]
  /\ lastOp = NoOp
  /\ sHistory = {}
  /\ sToday = 0
  /\ sCheckDate = 0
  /\ sStreak = 0
  /\ sResult = NULL
  /\ SelIdle
  /\ ConcIdle
  /\ AuthIdle
  /\ PollIdle
  /\ CascadeIdle
  /\ TimeIdle
  /\ orphans \in [OrphanSubs -> {[status |-> "pending", created |-> 0, user_rating |-> r] :
                                   r \in {NULL, 4}}]
  /\ nullRows = <<>>
  /\ orphanOp = NoOrphanOp

\* UPDATE problem_submissions SET status = st, difficulty = d WHERE id = o by a
\* client of the given role, for a row with user_id NULL and no prompt.  The
\* trigger on_problem_completion runs the upsert with NEW.user_id = NULL; the
\* UPDATE of update_daily_streak, WHERE user_id = NULL, matches no row and fires
\* no achievement check.  No statement of the cascade raises an error.
OrphanSetStatus(role, o, st, d) ==
  LET old == orphans[o].status
      completing == ProgressGuard(old, st)
      points_earned == BasePoints(d) + RatingBonus(orphans[o].user_rating)
      time_spent == TimeSpent(NULL)
      op == [role |-> role, sub |-> o, completing |-> completing, rows |-> 0,
             err |-> FALSE]
  IN /\ completing => Len(nullRows) < MaxNullRows
     /\ ~completing => d = NULLT
     /\ IF ~PolicyAdmits(role, "u1", NULLT)
        THEN /\ UNCHANGED <<orphans, nullRows>>
             /\ orphanOp' = op
        ELSE /\ orphans' = [orphans EXCEPT ![o].status = st]
             /\ nullRows' =
                  IF ~completing THEN nullRows
                  ELSE IF UpsertConflicts(NULLT, Len(nullRows) > 0)
                  THEN [nullRows EXCEPT ![1] = UpdateProgress(@, points_earned, time_spent, today)]
                  ELSE Append(nullRows, InsertProgress(points_earned, time_spent))
             /\ orphanOp' = [op EXCEPT !.rows = 1]
     /\ UNCHANGED <<dbVars, streakVars, selVars, concVars, timeVars, cascadeVars, pollVars, authVars>>

NullUserNext ==
  \E role \in {"authenticated", "service_role"}, o \in OrphanSubs, st \in Statuses,
     d \in {"easy", NULLT} : OrphanSetStatus(role, o, st, d)

\* Completions of submissions that have no user.
NullUserSpec == NullUserInit /\ [][NullUserNext]_vars

\* ----------------------------------------------------- TimeSpec
\* processing_time_ms INTEGER has no constraint: NULL, or a number of
\* milliseconds near a whole number of minutes, of either sign.
ProcessingTimes ==
  {NullInt} \cup {Int32(k * 60000 + j) : k \in (-MaxMinutes)..MaxMinutes,
                                         j \in {-2, 0, 1, 30000, 59999}}

TimeInit ==
  /\ workload = CHOOSE w \in Workloads : w.name = "grading"
  /\ today = 0
  /\ subs = [s \in Subs |-> NoSub]
  /\ progress = [u \in Users |-> NoProgress]
  /\ ua = [k \in Users \X Achs |-> NoUA]
  /\ prompts = [p \in Prompts |-> DefaultPrompt]
  /\ credited = [k \in Users \X Achs |-> 0]
  /\ lastOp = NoOp
  /\ sHistory = {}
  /\ sToday = 0
  /\ sCheckDate = 0
  /\ sStreak = 0
  /\ sResult = NULL
  /\ SelIdle
  /\ ConcIdle
  /\ AuthIdle
  /\ PollIdle
  /\ CascadeIdle
  /\ NullIdle
  /\ tInput \in ProcessingTimes
  /\ tMinutes = Unassigned

\* time_spent := COALESCE(NEW.processing_time_ms / 60000, 0)
TimeAssign ==
  /\ tMinutes = Unassigned
  /\ tMinutes' = [assigned |-> TRUE, minutes |-> TimeSpent(Column(tInput))]
  /\ UNCHANGED tInput
  /\ UNCHANGED <<dbVars, streakVars, selVars, concVars, nullVars, cascadeVars, pollVars, authVars>>

TimeNext == TimeAssign

\* The minutes a completion adds to total_study_time_minutes.
TimeSpec == TimeInit /\ [][TimeNext]_vars

\* ----------------------------------------------------- CascadeSpec
\* A call of check_and_award_achievements begins: user_stats is selected and the
\* FOR loop's query is run.
CallFrame(db, u) ==
  [todo |-> PendingAchievements(db, u), user_stats |-> UserStats(db, u),
   begin |-> db.clock + 1]

\* Ledger rows and submissions at the moment an UPDATE of the user's ledger row
\* has fired check_achievements_on_progress_update: any statistics within the
\* bounds, any set of achievements completed before.
CascadeStarts ==
  {[NoWrites EXCEPT
      !.subs = [s \in Subs |-> IF s \in done
                               THEN [status |-> "completed", created |-> 0, user_rating |-> 5]
                               ELSE NoSub],
      !.progress = [u \in Users |->
                      [DefaultProgress EXCEPT !.problems_solved = n, !.current_streak = k]],
      !.ua = [key \in Users \X Achs |->
                IF key[2] \in held THEN AwardRow(NoUA, 0, 0) ELSE NoUA]] :
     done \in {{}, {"s1", "s2"}}, n \in 0..MaxSolved, k \in 0..2,
     held \in SUBSET {a \in Achs : Achievements[a].is_active}}

CascadeInit ==
  /\ workload = CHOOSE w \in Workloads : w.name = "grading"
  /\ today = 0
  /\ subs = [s \in Subs |-> NoSub]
  /\ progress = [u \in Users |-> NoProgress]
  /\ ua = [k \in Users \X Achs |-> NoUA]
  /\ prompts = [p \in Prompts |-> DefaultPrompt]
  /\ credited = [k \in Users \X Achs |-> 0]
  /\ lastOp = NoOp
  /\ sHistory = {}
  /\ sToday = 0
  /\ sCheckDate = 0
  /\ sStreak = 0
  /\ sResult = NULL
  /\ SelIdle
  /\ ConcIdle
  /\ AuthIdle
  /\ PollIdle
  /\ NullIdle
  /\ TimeIdle
  /\ cStart \in CascadeStarts
  /\ cDb = [cStart EXCEPT !.clock = 1]
  /\ cStack = <<CallFrame(cStart, "u1")>>

\* END LOOP of the innermost call: it returns to the statement that fired it.
CascadeReturn ==
  /\ cStack # <<>>
  /\ Head(cStack).todo = <<>>
  /\ cStack' = Tail(cStack)
  /\ UNCHANGED <<cDb, cStart>>
  /\ UNCHANGED <<dbVars, streakVars, selVars, concVars, nullVars, timeVars, pollVars, authVars>>

\* One iteration of the FOR loop of the innermost call: the criteria of the next
\* row are compared with user_stats; if they are met, the user_achievements row
\* is upserted and the UPDATE of user_progress fires the trigger, which calls the
\* function again before the loop goes on.
CascadeIteration ==
  LET u == "u1"
      f == Head(cStack)
      a == Head(f.todo)
      reward == Achievements[a].points_reward
      res == IF f.user_stats.found THEN CriteriaMet(Achievements[a].criteria, f.user_stats)
             ELSE [met |-> FALSE, err |-> FALSE]
      rest == <<[f EXCEPT !.todo = Tail(f.todo)]>> \o Tail(cStack)
      at == cDb.clock + 1
      awarded == [cDb EXCEPT !.ua[<<u, a>>] = AwardRow(@, today, reward),
                             !.clock = at,
                             !.awards = Append(@, [ach |-> a, begin |-> f.begin, at |-> at])]
      paid == [awarded EXCEPT !.progress[u] = CreditReward(@, reward),
                              !.credited[<<u, a>>] = @ + 1]
  IN /\ cStack # <<>>
     /\ f.todo # <<>>
     /\ IF res.err
        THEN /\ cDb' = [cDb EXCEPT !.err = TRUE]
             /\ cStack' = <<>>
        ELSE IF ~res.met
        THEN /\ cStack' = rest
             /\ UNCHANGED cDb
        ELSE IF ~awarded.progress[u].present
        THEN /\ cDb' = awarded
             /\ cStack' = rest
        ELSE /\ cDb' = [paid EXCEPT !.clock = @ + 1]
             /\ cStack' = <<CallFrame(paid, u)>> \o rest
     /\ UNCHANGED cStart
     /\ UNCHANGED <<dbVars, streakVars, selVars, concVars, nullVars, timeVars, pollVars, authVars>>

CascadeNext == CascadeReturn \/ CascadeIteration

\* The cascade of achievement checks behind one UPDATE of a ledger row.
CascadeSpec == CascadeInit /\ [][CascadeNext]_vars

\* The transaction runs on until its statement is finished.
CascadeFairSpec == CascadeSpec /\ WF_vars(CascadeNext)

\* ----------------------------------------------------- PollSpec
maxAttempts == 60

\* What one fetch of the submission can give: an error of the query, no row, an
\* exception thrown on the way, or the row with its status.
FetchOutcomes == {"fetchError", "noData", "thrown"} \cup Statuses

TimedOut == "Problem processing timed out. Please try again."

\* Mutant of WithinAttempts: the number of attempts is not limited.
WithinAttempts_Unlimited(n) == TRUE

\* attempts < maxAttempts
WithinAttempts(n) == n < maxAttempts

\* The body of poll for the given outcome of the fetch: the new values of
\* attempts, of the result and error states, and whether poll was scheduled again.
poll(outcome, n, result, error) ==
  IF outcome = "fetchError"
  THEN [attempts |-> n, result |-> result, error |-> "Failed to check problem status",
        again |-> FALSE]
  ELSE IF outcome = "noData"
  THEN [attempts |-> n, result |-> result,
        error |-> "Problem not found. Please try submitting again.", again |-> FALSE]
  ELSE IF outcome = "thrown"
  THEN [attempts |-> n, result |-> result, error |-> "Failed to check problem status",
        again |-> FALSE]
  ELSE IF outcome = "completed"
  THEN [attempts |-> n, result |-> outcome, error |-> error, again |-> FALSE]
  ELSE IF outcome = "error"
  THEN [attempts |-> n, result |-> outcome, error |-> "Problem processing failed",
        again |-> FALSE]
  ELSE IF WithinAttempts(n + 1)
  THEN [attempts |-> n + 1, result |-> outcome, error |-> error, again |-> TRUE]
  ELSE [attempts |-> n + 1, result |-> outcome, error |-> TimedOut, again |-> FALSE]

\* pollForCompletion was called: attempts = 0 and setTimeout(poll, 1000).
PollInit ==
  /\ workload = CHOOSE w \in Workloads : w.name = "grading"
  /\ today = 0
  /\ subs = [s \in Subs |-> NoSub]
  /\ progress = [u \in Users |-> NoProgress]
  /\ ua = [k \in Users \X Achs |-> NoUA]
  /\ prompts = [p \in Prompts |-> DefaultPrompt]
  /\ credited = [k \in Users \X Achs |-> 0]
  /\ lastOp = NoOp
  /\ sHistory = {}
  /\ sToday = 0
  /\ sCheckDate = 0
  /\ sStreak = 0
  /\ sResult = NULL
  /\ SelIdle
  /\ ConcIdle
  /\ AuthIdle
  /\ NullIdle
  /\ TimeIdle
  /\ CascadeIdle
  /\ pTimer = TRUE
  /\ attempts = 0
  /\ pResult = NULLT
  /\ pError = NULLT
  /\ pFetched = [n |-> 0, last |-> NULLT]

\* The timer fires and poll runs with some outcome of its fetch.  Only the last
\* outcome and the number of fetches are kept of the history.
Poll(outcome) ==
  LET r == poll(outcome, attempts, pResult, pError)
  IN /\ pTimer
     /\ attempts' = r.attempts
     /\ pResult' = r.result
     /\ pError' = r.error
     /\ pTimer' = r.again
     /\ pFetched' = [n |-> pFetched.n + 1, last |-> outcome]
     /\ UNCHANGED <<dbVars, streakVars, selVars, concVars, nullVars, timeVars, cascadeVars, authVars>>

PollNext == \E outcome \in FetchOutcomes : Poll(outcome)

\* The polling of one submitted problem.
PollSpec == PollInit /\ [][PollNext]_vars

\* A pending timer fires and the fetch it starts settles.
PollFairSpec == PollSpec /\ WF_vars(PollNext)

\* ----------------------------------------------------- AuthSpec
\* Values of the types User, Session and of the error messages; the payload of
\* SET_USER is typed { user: User; session: Session }, neither of them null.
AuthUsers == {"user1", "user2", "guest"}
AuthSessions == {"session1", "session2", "mockSession"}
AuthErrors ==
  {"Failed to initialize authentication", "Failed to load user data", "Login failed",
   "Registration failed", "Failed to continue as guest", "Failed to send reset email"}

\* An AuthAction; the fields its type does not have are NULLT (FALSE for loading).
Action(type, loading, user, session, error) ==
  [type |-> type, loading |-> loading, user |-> user, session |-> session, error |-> error]

AuthActions ==
  {Action("SET_LOADING", b, NULLT, NULLT, NULLT) : b \in BOOLEAN}
    \cup {Action("SET_USER", FALSE, u, ss, NULLT) : u \in AuthUsers, ss \in AuthSessions}
    \cup {Action("SET_ERROR", FALSE, NULLT, NULLT, e) : e \in AuthErrors}
    \cup {Action("CLEAR_ERROR", FALSE, NULLT, NULLT, NULLT),
          Action("LOGOUT", FALSE, NULLT, NULLT, NULLT)}

\* Mutant of SetUser: isAuthenticated keeps its value.
SetUser_KeepFlag(state, action) ==
  [state EXCEPT !.user = action.user, !.session = action.session,
                !.isLoading = FALSE, !.error = NULLT]

\* case 'SET_USER'
SetUser(state, action) ==
  [state EXCEPT !.user = action.user, !.session = action.session,
                !.isAuthenticated = TRUE, !.isLoading = FALSE, !.error = NULLT]

authReducer(state, action) ==
  CASE action.type = "SET_LOADING" -> [state EXCEPT !.isLoading = action.loading]
    [] action.type = "SET_USER" -> SetUser(state, action)
    [] action.type = "SET_ERROR" -> [state EXCEPT !.error = action.error, !.isLoading = FALSE]
    [] action.type = "CLEAR_ERROR" -> [state EXCEPT !.error = NULLT]
    [] action.type = "LOGOUT" ->
         [user |-> NULLT, session |-> NULLT, isAuthenticated |-> FALSE,
          isLoading |-> FALSE, error |-> NULLT]
    [] OTHER -> state

AuthInit ==
  /\ workload = CHOOSE w \in Workloads : w.name = "grading"
  /\ today = 0
  /\ subs = [s \in Subs |-> NoSub]
  /\ progress = [u \in Users |-> NoProgress]
  /\ ua = [k \in Users \X Achs |-> NoUA]
  /\ prompts = [p \in Prompts |-> DefaultPrompt]
  /\ credited = [k \in Users \X Achs |-> 0]
  /\ lastOp = NoOp
  /\ sHistory = {}
  /\ sToday = 0
  /\ sCheckDate = 0
  /\ sStreak = 0
  /\ sResult = NULL
  /\ SelIdle
  /\ ConcIdle
  /\ NullIdle
  /\ TimeIdle
  /\ CascadeIdle
  /\ PollIdle
  /\ authState = initialState
  /\ authLast = NULLT

\* dispatch(action)
Dispatch(action) ==
  /\ authState' = authReducer(authState, action)
  /\ authLast' = action.type
  /\ UNCHANGED <<dbVars, streakVars, selVars, concVars, nullVars, timeVars, cascadeVars,
                 pollVars>>

AuthNext == \E action \in AuthActions : Dispatch(action)

\* The state of the AuthProvider under any sequence of dispatched actions.
AuthSpec == AuthInit /\ [][AuthNext]_vars

\* =================================================================== claims
Completed(uas, u, a) == uas[<<u, a>>].present /\ uas[<<u, a>>].is_completed

\* The achievements awarded (returned or not) by the statement executed last.
Awarded(op) == {op.awards[i].ach : i \in 1..Len(op.awards)}

\* level is floor(sqrt(xp / 100)) + 1: (level - 1)^2 <= xp / 100 < level^2.
IsLevelOf(level, xp) ==
  /\ level >= 1
  /\ (level - 1) * (level - 1) * 100 <= xp
  /\ xp < level * level * 100

\* C1: in every reachable state every ledger row has
\* level = floor(sqrt(experience_points / 100)) + 1, and the level computed for
\* experience 0, 99, 100, 399, 400 is 1, 1, 2, 2, 3.
C1_LevelInvariant ==
  /\ \A u \in Users :
       progress[u].present => IsLevelOf(progress[u].level, progress[u].experience_points)
  /\ <<calculate_user_level(0), calculate_user_level(99), calculate_user_level(100),
        calculate_user_level(399), calculate_user_level(400)>> = <<1, 1, 2, 2, 3>>

\* C1 witness: a completion whose cascade awarded achievements took a ledger row
\* that the first completion created to level 3.
C1_Witness ==
  /\ lastOp.op = "complete"
  /\ lastOp.awards # <<>>
  /\ \E u \in Users :
       /\ progress[u].level = 3
       /\ progress[u].last_activity_date # NULL
       /\ progress[u].experience_points >= 400

\* Sum of the rewards of the awards a statement's cascade made.
RECURSIVE RewardsOf(_)
RewardsOf(awards) ==
  IF awards = <<>> THEN 0
  ELSE Achievements[Head(awards).ach].points_reward + RewardsOf(Tail(awards))

\* What the completion trigger of the statement executed in this step added to the
\* total points of the submission's owner: the change of the ledger less the
\* achievement rewards credited in the same cascade.
CompletionPoints ==
  progress'[SubUser(lastOp'.sub)].total_points
    - progress[SubUser(lastOp'.sub)].total_points - RewardsOf(lastOp'.awards)

\* The points the specification gives for a difficulty.
PointsTable(difficulty) ==
  IF difficulty = "easy" THEN 10
  ELSE IF difficulty = "medium" THEN 20
  ELSE IF difficulty = "hard" THEN 30
  ELSE 15

\* The rating a submission carries is 4 or 5.
RatedHigh(row) == row.user_rating \in {4, 5}

\* C2: an UPDATE that sets the status of a completed submission to completed again
\* leaves the ledger (with its streak), the achievements and the statistics of the
\* referenced prompt as the first delivery left them, and raises no error.
C2_RedeliveryIsNoOp ==
  [][lastOp'.op = "redeliver" =>
       /\ progress' = progress
       /\ ua' = ua
       /\ prompts' = prompts
       /\ credited' = credited
       /\ ~lastOp'.err]_vars

\* C2 witness: a completion was delivered again for a submission whose first
\* delivery was counted in the ledger and in the prompt's usage count.
C2_Witness ==
  /\ lastOp.op = "redeliver"
  /\ subs[lastOp.sub].status = "completed"
  /\ progress[SubUser(lastOp.sub)].problems_solved >= 1
  /\ SubPrompt(lastOp.sub) # NULLT
  /\ prompts[SubPrompt(lastOp.sub)].usage_count >= 1

\* C3: a transition into completed credits, apart from the rating bonus, exactly
\* 10 points for difficulty easy, 20 for medium, 30 for hard and 15 for a missing
\* difficulty.
C3_BasePoints ==
  [][lastOp'.op = "complete" =>
       \E bonus \in {0, 5} :
         /\ CompletionPoints = PointsTable(lastOp'.difficulty) + bonus
         /\ lastOp'.points = PointsTable(lastOp'.difficulty) + bonus
         /\ progress'[SubUser(lastOp'.sub)].experience_points
              - progress[SubUser(lastOp'.sub)].experience_points
              = CompletionPoints + RewardsOf(lastOp'.awards)]_vars

\* C3 witness: the second completion of a user, of a hard submission, credited 30.
C3_Witness ==
  /\ lastOp.op = "complete"
  /\ lastOp.difficulty = "hard"
  /\ lastOp.points = 30
  /\ progress[SubUser(lastOp.sub)].problems_solved = 2

\* C4: a transition into completed credits 5 points more than the base points
\* exactly when the submission carries a rating of 4 or 5 at that moment, and an
\* UPDATE of the rating of a completed submission changes neither the total points
\* nor the experience points of its owner.
C4_RatingBonus ==
  [][/\ lastOp'.op = "complete" =>
          CompletionPoints - PointsTable(lastOp'.difficulty)
            = IF RatedHigh(subs[lastOp'.sub]) THEN 5 ELSE 0
     /\ (lastOp'.op = "rating" /\ subs[lastOp'.sub].status = "completed") =>
          /\ progress'[SubUser(lastOp'.sub)].total_points
               = progress[SubUser(lastOp'.sub)].total_points
          /\ progress'[SubUser(lastOp'.sub)].experience_points
               = progress[SubUser(lastOp'.sub)].experience_points]_vars

\* C4 witness: a hard submission was completed while rated 4 or 5 (30 + 5 points and
\* the 10 of the first achievement), and its rating was lowered to 3 afterwards.
C4_Witness ==
  /\ lastOp.op = "rating"
  /\ subs[lastOp.sub].status = "completed"
  /\ subs[lastOp.sub].user_rating = 3
  /\ progress[SubUser(lastOp.sub)].problems_solved = 1
  /\ progress[SubUser(lastOp.sub)].total_points = 45

\* The day the backward walk starts counting from: today, or yesterday when today
\* has no activity yet.
StreakAnchor(days, current_date) ==
  IF current_date \in days THEN current_date ELSE current_date - 1

\* The number of consecutive days with activity, backward from the anchor.
ConsecutiveDays(days, current_date) ==
  LET anchor == StreakAnchor(days, current_date)
  IN CHOOSE k \in 0..(SafetyLimit + MaxExcess + MaxHistoryDay + 3) :
       /\ \A i \in 0..(k - 1) : (anchor - i) \in days
       /\ (anchor - k) \notin days

\* C5 as stated: for every activity history calculate_learning_streak returns the
\* number of consecutive days with activity, walking backward from today and
\* skipping today when it has no activity yet; activity on D-3, D-2, D-1 gives 3,
\* and activity on D-3, D-2 and D with a gap on D-1 gives 1.
C5_EveryHistory ==
  /\ sResult # NULL => sResult = ConsecutiveDays(sHistory, sToday)
  /\ (sResult # NULL /\ sHistory = {sToday - 3, sToday - 2, sToday - 1}) => sResult = 3
  /\ (sResult # NULL /\ sHistory = {sToday - 3, sToday - 2, sToday}) => sResult = 1

\* C5, amended: calculate_learning_streak returns that number of consecutive days
\* when it is at most one more than the safety limit, and one more than the safety
\* limit for every longer run; the two examples are as stated.
C5_LearningStreak ==
  /\ sResult # NULL =>
       sResult = IF ConsecutiveDays(sHistory, sToday) <= SafetyLimit + 1
                 THEN ConsecutiveDays(sHistory, sToday)
                 ELSE SafetyLimit + 1
  /\ (sResult # NULL /\ sHistory = {sToday - 3, sToday - 2, sToday - 1}) => sResult = 3
  /\ (sResult # NULL /\ sHistory = {sToday - 3, sToday - 2, sToday}) => sResult = 1

\* C5 witness: the streak of a user active on each of the SafetyLimit days before
\* today and not yet today was computed, and is SafetyLimit.
C5_Witness ==
  /\ sResult = SafetyLimit
  /\ sToday \notin sHistory
  /\ sHistory = (sToday - SafetyLimit)..(sToday - 1)

\* C6: a completed (user, achievement) pair stays completed; a statement executed
\* afterwards neither awards it again nor changes its row nor credits its reward;
\* and inside one cascade an achievement is awarded a second time only by a call
\* of check_and_award_achievements that began before it was first awarded.
C6_CompletedStaysCompleted ==
  [][/\ \A u \in Users, a \in Achs :
          Completed(ua, u, a) =>
            /\ ua'[<<u, a>>] = ua[<<u, a>>]
            /\ credited'[<<u, a>>] = credited[<<u, a>>]
            /\ a \notin Awarded(lastOp')
     /\ \A i, j \in 1..Len(lastOp'.awards) :
          (i < j /\ lastOp'.awards[i].ach = lastOp'.awards[j].ach) =>
            lastOp'.awards[j].begin < lastOp'.awards[i].at]_vars

\* C6 witness: check_and_award_achievements was called for a user who solved a
\* problem and holds First Steps already, and awarded nothing.
C6_Witness ==
  /\ lastOp.op = "check"
  /\ lastOp.awards = <<>>
  /\ \E u \in Users :
       /\ progress[u].problems_solved >= 1
       /\ Completed(ua, u, "first_steps")
       /\ credited[<<u, "first_steps">>] = 1

\* The rewards of the achievements of S.
RECURSIVE RewardSum(_)
RewardSum(S) ==
  IF S = {} THEN 0
  ELSE LET a == CHOOSE x \in S : TRUE
       IN Achievements[a].points_reward + RewardSum(S \ {a})

\* The achievements of u that the step completes.
NewlyCompleted(u) == {a \in Achs : ~Completed(ua, u, a) /\ Completed(ua', u, a)}

\* C7: every statement adds to the total points and to the experience points of a
\* user, besides the points of the completion itself, the reward of every
\* achievement it completes for the user exactly once, also when several
\* achievements become eligible in one cascade of nested checks.
C7_RewardCreditedOnce ==
  [][\A u \in Users :
       LET own == IF lastOp'.sub # NULLT /\ SubUser(lastOp'.sub) = u
                  THEN lastOp'.points ELSE 0
       IN /\ progress'[u].total_points - progress[u].total_points
               = own + RewardSum(NewlyCompleted(u))
          /\ progress'[u].experience_points - progress[u].experience_points
               = own + RewardSum(NewlyCompleted(u))
          /\ \A a \in Achs :
               credited'[<<u, a>>] = IF Completed(ua', u, a) THEN 1 ELSE 0]_vars

\* The criteria keys check_and_award_achievements compares with a statistic.
\* (study_hours, level, subjects_count and problems_per_session are in no
\* achievement with several thresholds here.)
ThresholdStat(row, key) ==
  IF key = "problems_solved" THEN row.problems_solved ELSE row.current_streak

NamedThresholds(a) == DOMAIN Achievements[a].criteria \cap {"problems_solved", "streak_days"}

\* C8: an achievement whose criteria name several thresholds is completed by a
\* statement only if the user's statistics, before or after the statement, reach
\* every one of them.
C8_CriteriaConjunctive ==
  [][\A u \in Users, a \in Achs :
       (a \in NewlyCompleted(u) /\ Cardinality(NamedThresholds(a)) > 1) =>
         \A key \in NamedThresholds(a) :
           Max(ThresholdStat(progress[u], key), ThresholdStat(progress'[u], key))
             >= Achievements[a].criteria[key].n]_vars

\* The completed submissions of u that are rated 5.
FiveStarSubs(sb, u) == {s \in CompletedSubs(sb, u) : sb[s].user_rating = 5}

\* C9: an achievement with a five_star_ratings threshold is completed by a
\* statement only if the user then has at least that many completed submissions
\* rated 5.
C9_FiveStarCount ==
  [][\A u \in Users, a \in Achs :
       (a \in NewlyCompleted(u) /\ Has(Achievements[a].criteria, "five_star_ratings")) =>
         Cardinality(FiveStarSubs(subs', u))
           >= Achievements[a].criteria["five_star_ratings"].n]_vars

\* The criteria keys the chain of check_and_award_achievements recognises.
RecognisedKeys ==
  {"problems_solved", "study_hours", "streak_days", "level", "subjects_count",
   "five_star_ratings", "problems_per_session"}

Unrecognised(a) == DOMAIN Achievements[a].criteria \cap RecognisedKeys = {}

\* C10: an active achievement whose criteria hold no recognised key is never
\* awarded, and no statement ends with an error.
C10_UnrecognisedNeverAwarded ==
  /\ \A u \in Users, a \in Achs :
       (Achievements[a].is_active /\ Unrecognised(a)) =>
         /\ ~ua[<<u, a>>].present
         /\ credited[<<u, a>>] = 0
         /\ a \notin Awarded(lastOp)
  /\ ~lastOp.err

\* C10 witness: the achievements of a user who solved two problems were checked,
\* with an active achievement of unrecognised criteria in the catalog.
C10_Witness ==
  /\ lastOp.op = "check"
  /\ \E a \in Achs : Achievements[a].is_active /\ Unrecognised(a)
  /\ \E u \in Users :
       /\ progress[u].problems_solved = 2
       /\ Completed(ua, u, "math_whiz")

\* select_optimal_prompt returned a row.
Returned == selResult \in DOMAIN catalog

\* The row is an active template of the named subject whose input type is the
\* requested one or the wildcard.
Eligible(t) ==
  /\ catalog[t].is_active
  /\ catalog[t].subject = selArgs.p_subject_name
  /\ catalog[t].input_type \in {selArgs.p_input_type, "any"}

\* C11: a template that select_optimal_prompt returns is active, belongs to the
\* named subject and has the requested input type or the input type 'any'.
C11_ReturnedIsEligible == Returned => Eligible(selResult)

\* C11 witness: the second-best row was returned because the row with the better
\* statistics is not active.
C11_Witness ==
  /\ Returned
  /\ \E t \in DOMAIN catalog :
       /\ ~catalog[t].is_active
       /\ catalog[t].subject = selArgs.p_subject_name
       /\ catalog[t].input_type = selArgs.p_input_type
       /\ catalog[t].effectiveness_score > catalog[selResult].effectiveness_score

\* C12: the row returned has the highest effectiveness score of the candidates
\* that survive the filtering and, among the candidates with that score, the
\* lowest usage count; 8.00 with 50 uses is chosen over 6.00 with 5 uses.
C12_Ranking ==
  Returned =>
    /\ selResult \in Candidates(catalog, selArgs)
    /\ \A o \in Candidates(catalog, selArgs) :
         /\ catalog[o].effectiveness_score <= catalog[selResult].effectiveness_score
         /\ catalog[o].effectiveness_score = catalog[selResult].effectiveness_score
              => catalog[o].usage_count >= catalog[selResult].usage_count
         /\ (catalog[o].effectiveness_score = 800 /\ catalog[o].usage_count = 50)
              => catalog[selResult].effectiveness_score = 800

\* C12 witness: a row of score 8.00 with 50 uses was returned from candidates that
\* hold a row of score 6.00 with 5 uses and another row of score 8.00.
C12_Witness ==
  /\ Returned
  /\ catalog[selResult].effectiveness_score = 800
  /\ catalog[selResult].usage_count = 50
  /\ \E o \in Candidates(catalog, selArgs) :
       catalog[o].effectiveness_score = 600 /\ catalog[o].usage_count = 5
  /\ \E o \in Candidates(catalog, selArgs) \ {selResult} :
       catalog[o].effectiveness_score = 800

\* C13 as stated: none is returned only when no active template of the named
\* subject matches the input type (a restriction by difficulty, grade level or
\* keywords that would eliminate every candidate is skipped).
C13_NoneOnlyWithoutEligible ==
  selResult = "none" => \A t \in DOMAIN catalog : ~Eligible(t)

\* The row meets every restriction whose parameter is not NULL.
MeetsRestrictions(t) ==
  /\ selArgs.p_difficulty # NULLT => catalog[t].difficulty_level = selArgs.p_difficulty
  /\ selArgs.p_grade_level # NULLT => selArgs.p_grade_level \in catalog[t].grade_levels
  /\ ~selArgs.p_keywords.null =>
       /\ ~catalog[t].keywords.null
       /\ \E k \in selArgs.p_keywords.elems : k \in catalog[t].keywords.elems

\* C13, amended: none is returned exactly when no active template of the named
\* subject matches the input type and every restriction whose parameter is not
\* NULL, and a returned template meets these restrictions: none is skipped.
C13_NoneIffNoMatch ==
  /\ selResult = "none" => \A t \in DOMAIN catalog : ~(Eligible(t) /\ MeetsRestrictions(t))
  /\ Returned => MeetsRestrictions(selResult)

\* C13 witness: none was returned although an active template of the subject
\* matches the input type; its difficulty is not the requested one.
C13_Witness ==
  /\ selResult = "none"
  /\ \E t \in DOMAIN catalog :
       /\ Eligible(t)
       /\ selArgs.p_difficulty # NULLT
       /\ catalog[t].difficulty_level # selArgs.p_difficulty

\* x hundredths is the nearest hundredth to 0.6 * (sum / n) + 0.4 * ((done / total *
\* 100) / 20), compared after multiplying by 100 * n * total.
NearestHundredth(x, total, done, n, sum) ==
  LET exact == 60 * sum * total + 200 * done * n
      shown == x * n * total
  IN /\ 2 * (shown - exact) <= n * total
     /\ 2 * (exact - shown) <= n * total

C15_CompletionUpdatesLedger ==
  [][lastOp'.op = "complete" =>
       LET u == SubUser(lastOp'.sub)
       IN /\ progress'[u].present
          /\ progress'[u].problems_solved = progress[u].problems_solved + 1
          /\ CompletionPoints = lastOp'.points
          /\ progress'[u].experience_points - progress[u].experience_points
               = lastOp'.points + RewardsOf(lastOp'.awards)
          /\ progress'[u].last_activity_date = today]_vars

\* C16: after every completion longest_streak is the greater of its previous value
\* and the newly computed current_streak, so that it is never below current_streak.
C16_LongestStreak ==
  [][lastOp'.op = "complete" =>
       LET u == SubUser(lastOp'.sub)
       IN /\ progress'[u].longest_streak
               = Max(progress[u].longest_streak, progress'[u].current_streak)
          /\ progress'[u].longest_streak >= progress'[u].current_streak]_vars

\* C17: the usage count of a prompt grows by 1 with every transition into
\* completed of a submission that references it, and no other statement, a rating
\* UPDATE in particular, changes it.
C17_UsageCount ==
  [][\A p \in Prompts :
       prompts'[p].usage_count =
         prompts[p].usage_count
           + (IF lastOp'.op = "complete" /\ SubPrompt(lastOp'.sub) = p THEN 1 ELSE 0)]_vars

\* The edges of the life cycle of a submission (archived is no value the CHECK of
\* the status column admits).
LifeCycle ==
  {<<"pending", "processing">>, <<"processing", "completed">>, <<"processing", "error">>,
   <<"completed", "archived">>}

\* C18: an UPDATE changes the status of a submission only along an edge of the life
\* cycle; in particular none moves a submission out of error.
C18_StatusLifeCycle ==
  [][\A s \in Subs :
       (subs[s].status # "none" /\ subs'[s].status # subs[s].status) =>
         <<subs[s].status, subs'[s].status>> \in LifeCycle]_vars

\* C19: an UPDATE of the status to a value other than completed leaves every ledger
\* row, every user_achievements row and the statistics of every prompt unchanged.
C19_OtherEdgesInert ==
  [][lastOp'.op = "status" =>
       /\ progress' = progress
       /\ ua' = ua
       /\ credited' = credited
       /\ prompts' = prompts]_vars

\* C19 witness: a completed submission that was counted in the ledger and in its
\* prompt's usage count was moved to error.
C19_Witness ==
  /\ lastOp.op = "status"
  /\ subs[lastOp.sub].status = "error"
  /\ SubPrompt(lastOp.sub) # NULLT
  /\ progress[SubUser(lastOp.sub)].problems_solved >= 1
  /\ prompts[SubPrompt(lastOp.sub)].usage_count >= 1
  /\ \E a \in Achs : Completed(ua, SubUser(lastOp.sub), a)


\* The sessions whose transaction has committed.
CommittedSessions == {t \in Sessions : sessions[t].pc = "committed"}

\* Points of the completion a session made: the table value of the difficulty it
\* wrote plus 5 for a rating of 4 or 5.
SessionPoints(t) ==
  PointsTable(sessions[t].difficulty)
    + (IF RatedHigh(subs[SessionSub(t)]) THEN 5 ELSE 0)

\* C20: when submissions of one user are completed by concurrent transactions,
\* no increment is lost in any interleaving: problems_solved has grown by the
\* number of committed completions, and total_points and experience_points hold
\* every completion's points (next to the achievement rewards credited).
C20_NoLostIncrement ==
  LET u == CHOOSE x \in Users : TRUE
      earned == SumOver(CommittedSessions, [t \in Sessions |-> SessionPoints(t)])
      rewards == SumOver(Achs, [a \in Achs |->
                                 credited[<<u, a>>] * Achievements[a].points_reward])
  IN CommittedSessions # {} =>
       /\ progress[u].present
       /\ progress[u].problems_solved = Cardinality(CommittedSessions)
       /\ progress[u].total_points = earned + rewards
       /\ progress[u].experience_points = earned + rewards

\* Three completions have committed, two of them after waiting for the row lock
\* of a transaction that was still open.
C20_Witness ==
  /\ CommittedSessions = Sessions
  /\ Cardinality({t \in Sessions : sessions[t].waited}) = 2
  /\ progress["u1"].problems_solved = 3


\* The sessions whose transaction awarded achievement a.
AwardingSessions(a) ==
  {t \in Sessions : sessions[t].pc # "begin" /\ a \in Awarded(sessions[t].db)}

\* C21: when the achievement check runs in concurrent transactions for one user,
\* every achievement is awarded at most once and its reward is added to the
\* ledger at most once, in every interleaving.
C21_AwardedOnceConcurrently ==
  \A a \in Achs :
    /\ Cardinality(AwardingSessions(a)) <= 1
    /\ credited[<<"u1", a>>] <= 1


\* The statistic of u that a recognised criteria key of the catalog names, in the
\* database with ledger rows pr and submissions sb.
StatOf(pr, sb, u, key) ==
  IF key = "problems_solved" THEN pr[u].problems_solved
  ELSE IF key = "streak_days" THEN pr[u].current_streak
  ELSE Cardinality(FiveStarSubs(sb, u))

\* The statistics of u reach every recognised threshold of achievement a, and a
\* names at least one.
Satisfied(pr, sb, u, a) ==
  /\ ~Unrecognised(a)
  /\ \A key \in DOMAIN Achievements[a].criteria \cap RecognisedKeys :
       StatOf(pr, sb, u, key) >= Achievements[a].criteria[key].n

\* C22: once a transition of a submission into completed is processed, every
\* active achievement whose criteria the user's resulting statistics satisfy is
\* completed for the user.
C22_CompletionEvaluatesAchievements ==
  [][(lastOp'.op = "complete" /\ ~lastOp'.err) =>
       LET u == SubUser(lastOp'.sub)
       IN \A a \in Achs :
            (Achievements[a].is_active /\ Satisfied(progress', subs', u, a)) =>
              Completed(ua', u, a)]_vars

\* C22 witness: a completion was processed that brought the user two completed
\* submissions rated 5 on a streak of two days, and its checks completed
\* Perfectionist and the achievement with two thresholds.
C22_Witness ==
  /\ lastOp.op = "complete"
  /\ ~lastOp.err
  /\ Satisfied(progress, subs, "u1", "perfectionist")
  /\ Satisfied(progress, subs, "u1", "steady_solver")
  /\ {"perfectionist", "steady_solver"} \subseteq Awarded(lastOp)


\* C23: a completion of a submission whose user_id is NULL fails with an error and
\* neither creates nor changes a ledger row, and there is never a ledger row
\* without a user.
C23_NullUserRejected ==
  [][orphanOp'.completing =>
       /\ orphanOp'.err
       /\ progress' = progress
       /\ nullRows' = <<>>]_vars


\* C24: the minutes a completion adds to the study time are the processing time in
\* milliseconds divided by 60000 and rounded down, and never negative, for every
\* integer processing time; a missing processing time adds 0.
C24_MinutesFloorNonNegative ==
  tMinutes.assigned =>
    /\ tMinutes.minutes >= 0
    /\ tInput.null => tMinutes.minutes = 0
    /\ (~tInput.null) => tMinutes.minutes = Max(0, tInput.ms \div 60000)


\* C25 as stated: calculate_learning_streak examines a bounded number of days and
\* the streak it returns never exceeds the safety limit of 365.
C25_AtMostSafetyLimit ==
  /\ sToday - sCheckDate <= SafetyLimit + 2
  /\ sResult # NULL => sResult <= SafetyLimit

\* C25, amended: calculate_learning_streak terminates for every activity history;
\* it examines at most two days more than the safety limit and the streak it
\* returns never exceeds the safety limit by more than one (366).
C25_StreakTerminates ==
  /\ [](/\ sToday - sCheckDate <= SafetyLimit + 2
        /\ sStreak <= SafetyLimit + 1
        /\ sResult # NULL => sResult <= SafetyLimit + 1)
  /\ <>(sResult # NULL)

\* C25 witness: the streak of a user active on each of more than SafetyLimit + 1
\* days up to today was returned, and is SafetyLimit + 1.
C25_Witness ==
  /\ sResult = SafetyLimit + 1
  /\ sToday \in sHistory
  /\ Cardinality(sHistory) > SafetyLimit + 1


\* The submissions of u that exist.
SubmissionsOf(sb, u) == {s \in Subs : SubUser(s) = u /\ sb[s].status # "none"}

\* C26: over any sequence of status updates a submission adds at most 1 to its
\* user's problems_solved, so problems_solved never exceeds the number of the
\* user's submissions that were ever completed, which is at most the number of
\* the user's submissions.
C26_CountedOncePerSubmission ==
  \A u \in Users :
    progress[u].problems_solved <= Cardinality(SubmissionsOf(subs, u))


\* The active achievements.
ActiveAchs == {a \in Achs : Achievements[a].is_active}

\* Awards a cascade can make at most when n achievements are still pending: each
\* of the n rows of the loop may be awarded, and each award starts a cascade
\* over at most n - 1 pending achievements.
RECURSIVE AwardBound(_)
AwardBound(n) == IF n = 0 THEN 0 ELSE n * (1 + AwardBound(n - 1))

\* C27: the cascade started by one UPDATE of a ledger row terminates: the calls of
\* the achievement check are never nested deeper than there are active
\* achievements (plus the outermost call), the awards and ledger updates stay
\* below a bound that depends on the number of achievements only, and in the end
\* no call is running.
C27_CascadeTerminates ==
  /\ [](/\ Len(cStack) <= Cardinality(ActiveAchs) + 1
        /\ Len(cDb.awards) <= AwardBound(Cardinality(ActiveAchs)))
  /\ <>(cStack = <<>>)

\* C27 witness: a cascade has ended that made more awards than there are
\* achievements it completed, so nested calls awarded inside the outer loop.
C27_Witness ==
  /\ cStack = <<>>
  /\ ~cDb.err
  /\ Len(cDb.awards) > Cardinality(Awarded(cDb))
  /\ Cardinality(Awarded(cDb)) >= 3


\* C28: in every reachable state the total points of every ledger row equal its
\* experience points: the creation of the row, the credit of a completion and the
\* reward of an achievement change both by the same amount.
C28_TotalEqualsExperience ==
  /\ [](\A u \in Users : progress[u].total_points = progress[u].experience_points)
  /\ [][\A u \in Users :
          progress'[u].total_points - progress[u].total_points
            = progress'[u].experience_points - progress[u].experience_points]_vars

\* C28 witness: a ledger row that held points already was credited a second
\* completion and the rewards of achievements.
C28_Witness ==
  /\ lastOp.op = "complete"
  /\ progress["u1"].problems_solved = 2
  /\ RewardsOf(lastOp.awards) > 0
  /\ progress["u1"].total_points > lastOp.points + RewardsOf(lastOp.awards)


\* C29: pollForCompletion never polls indefinitely.  It stops as soon as a fetched
\* status is completed or error, as soon as a fetch fails or returns no row, or
\* after maxAttempts = 60 polling attempts, and goes on otherwise; when it stops
\* because of the attempt limit it sets the error to the time-out message.
C29_PollingStops ==
  /\ [](/\ pFetched.n <= maxAttempts
        /\ attempts <= maxAttempts
        /\ pFetched.last \in {"completed", "error", "fetchError", "noData", "thrown"} => ~pTimer
        /\ (pFetched.n > 0 /\ pFetched.last \in {"pending", "processing"}) =>
             /\ pTimer <=> pFetched.n < maxAttempts
             /\ ~pTimer => pError = TimedOut)
  /\ <>(~pTimer)

\* C29 witness: sixty fetches found the submission pending or processing, and the
\* polling has stopped with the time-out message.
C29_Witness ==
  /\ ~pTimer
  /\ pFetched.n = maxAttempts
  /\ pFetched.last = "processing"
  /\ pError = TimedOut


\* C30: in every state reachable from initialState through authReducer actions,
\* isAuthenticated is true exactly when user and session are both non-null.
C30_AuthenticatedIffUserAndSession ==
  authState.isAuthenticated <=> (authState.user # NULLT /\ authState.session # NULLT)

\* C30 witness: a user was set, then an error, and the state is still
\* authenticated with user and session.
C30_Witness ==
  /\ authLast = "SET_ERROR"
  /\ authState.isAuthenticated
  /\ authState.user = "guest"
  /\ authState.session = "mockSession"
  /\ authState.error # NULLT

====
